---- MODULE Spec2Model ----
(***************************************************************************)
(* drf-simple-api-errors: the exception handler that turns an exception    *)
(* raised in request handling into a structured error body (title, detail, *)
(* invalid_params), an HTTP status and headers.                            *)
(*                                                                         *)
(* Python strings are modelled as sequences of one-character strings, so   *)
(* that camelize, the separator join of flatten_dict and the title derived *)
(* from an exception's default_code are computed character by character.   *)
(* Python values are tagged records [t, v]: str, list, dict (an ordered    *)
(* sequence of [k, v] items, as Python dicts keep insertion order), none.  *)
(***************************************************************************)
EXTENDS Integers, Sequences, FiniteSets, TLC

(***************************************************************************)
(* Bounds of the checked instance.                                         *)
(***************************************************************************)
\* most keys (at any depth, together) of a mapping detail
MaxNodes == 2
\* most messages of a list found as a mapping leaf or nested in a list detail
MaxList == 1
\* most elements of a list detail
MaxDetailLen == 2

(***************************************************************************)
(* String literals of the source, its tests and the framework messages the *)
(* tests pin down.                                                         *)
(***************************************************************************)
\* ''
S_empty ==
    <<>>
\* 'title'
S_title ==
    <<"t", "i", "t", "l", "e">>
\* 'detail'
S_detail ==
    <<"d", "e", "t", "a", "i", "l">>
\* 'invalid_params'
S_invalid_params ==
    <<"i", "n", "v", "a", "l", "i", "d", "_", "p", "a", "r", "a", "m", "s">>
\* 'invalidParams'
S_invalidParams ==
    <<"i", "n", "v", "a", "l", "i", "d", "P", "a", "r", "a", "m", "s">>
\* 'name'
S_name ==
    <<"n", "a", "m", "e">>
\* 'reason'
S_reason ==
    <<"r", "e", "a", "s", "o", "n">>
\* 'first_name'
S_first_name ==
    <<"f", "i", "r", "s", "t", "_", "n", "a", "m", "e">>
\* 'firstName'
S_firstName ==
    <<"f", "i", "r", "s", "t", "N", "a", "m", "e">>
\* 'non_field_errors'
S_non_field_errors ==
    <<"n", "o", "n", "_", "f", "i", "e", "l", "d", "_", "e", "r", "r", "o",
      "r", "s">>
\* '__all__'
S_all ==
    <<"_", "_", "a", "l", "l", "_", "_">>
\* '.'
S_dot ==
    <<".">>
\* '_'
S_underscore ==
    <<"_">>
\* 'Validation error.'
S_ValidationError ==
    <<"V", "a", "l", "i", "d", "a", "t", "i", "o", "n", " ", "e", "r", "r",
      "o", "r", ".">>
\* 'Invalid input.'
S_InvalidInput ==
    <<"I", "n", "v", "a", "l", "i", "d", " ", "i", "n", "p", "u", "t", ".">>
\* 'invalid'
S_invalid ==
    <<"i", "n", "v", "a", "l", "i", "d">>
\* 'Server error.'
S_ServerError ==
    <<"S", "e", "r", "v", "e", "r", " ", "e", "r", "r", "o", "r", ".">>
\* 'internal_server_error'
S_internal_server_error ==
    <<"i", "n", "t", "e", "r", "n", "a", "l", "_", "s", "e", "r", "v", "e",
      "r", "_", "e", "r", "r", "o", "r">>
\* 'A server error occurred.'
S_AServerErrorOccurred ==
    <<"A", " ", "s", "e", "r", "v", "e", "r", " ", "e", "r", "r", "o", "r",
      " ", "o", "c", "c", "u", "r", "r", "e", "d", ".">>
\* 'error'
S_error ==
    <<"e", "r", "r", "o", "r">>
\* 'Not found.'
S_NotFound ==
    <<"N", "o", "t", " ", "f", "o", "u", "n", "d", ".">>
\* 'not_found'
S_not_found ==
    <<"n", "o", "t", "_", "f", "o", "u", "n", "d">>
\* 'You do not have permission to perform this action.'
S_PermissionDenied ==
    <<"Y", "o", "u", " ", "d", "o", " ", "n", "o", "t", " ", "h", "a", "v",
      "e", " ", "p", "e", "r", "m", "i", "s", "s", "i", "o", "n", " ", "t",
      "o", " ", "p", "e", "r", "f", "o", "r", "m", " ", "t", "h", "i", "s",
      " ", "a", "c", "t", "i", "o", "n", ".">>
\* 'permission_denied'
S_permission_denied ==
    <<"p", "e", "r", "m", "i", "s", "s", "i", "o", "n", "_", "d", "e", "n",
      "i", "e", "d">>
\* 'Incorrect authentication credentials.'
S_AuthenticationFailed ==
    <<"I", "n", "c", "o", "r", "r", "e", "c", "t", " ", "a", "u", "t", "h",
      "e", "n", "t", "i", "c", "a", "t", "i", "o", "n", " ", "c", "r", "e",
      "d", "e", "n", "t", "i", "a", "l", "s", ".">>
\* 'authentication_failed'
S_authentication_failed ==
    <<"a", "u", "t", "h", "e", "n", "t", "i", "c", "a", "t", "i", "o", "n",
      "_", "f", "a", "i", "l", "e", "d">>
\* 'Bad credentials.'
S_BadCredentials ==
    <<"B", "a", "d", " ", "c", "r", "e", "d", "e", "n", "t", "i", "a", "l",
      "s", ".">>
\* 'Method "{method}" not allowed.'
S_MethodTemplate ==
    <<"M", "e", "t", "h", "o", "d", " ", "\"", "{", "m", "e", "t", "h", "o",
      "d", "}", "\"", " ", "n", "o", "t", " ", "a", "l", "l", "o", "w", "e",
      "d", ".">>
\* 'Method "GET" not allowed.'
S_MethodGET ==
    <<"M", "e", "t", "h", "o", "d", " ", "\"", "G", "E", "T", "\"", " ", "n",
      "o", "t", " ", "a", "l", "l", "o", "w", "e", "d", ".">>
\* 'method_not_allowed'
S_method_not_allowed ==
    <<"m", "e", "t", "h", "o", "d", "_", "n", "o", "t", "_", "a", "l", "l",
      "o", "w", "e", "d">>
\* 'Method not allowed.'
S_MethodNotAllowed ==
    <<"M", "e", "t", "h", "o", "d", " ", "n", "o", "t", " ", "a", "l", "l",
      "o", "w", "e", "d", ".">>
\* 'Unsupported media type "{media_type}" in request.'
S_MediaTemplate ==
    <<"U", "n", "s", "u", "p", "p", "o", "r", "t", "e", "d", " ", "m", "e",
      "d", "i", "a", " ", "t", "y", "p", "e", " ", "\"", "{", "m", "e", "d",
      "i", "a", "_", "t", "y", "p", "e", "}", "\"", " ", "i", "n", " ", "r",
      "e", "q", "u", "e", "s", "t", ".">>
\* 'Unsupported media type "application/json" in request.'
S_MediaJSON ==
    <<"U", "n", "s", "u", "p", "p", "o", "r", "t", "e", "d", " ", "m", "e",
      "d", "i", "a", " ", "t", "y", "p", "e", " ", "\"", "a", "p", "p", "l",
      "i", "c", "a", "t", "i", "o", "n", "/", "j", "s", "o", "n", "\"", " ",
      "i", "n", " ", "r", "e", "q", "u", "e", "s", "t", ".">>
\* 'unsupported_media_type'
S_unsupported_media_type ==
    <<"u", "n", "s", "u", "p", "p", "o", "r", "t", "e", "d", "_", "m", "e",
      "d", "i", "a", "_", "t", "y", "p", "e">>
\* 'Unsupported media type.'
S_UnsupportedMediaType ==
    <<"U", "n", "s", "u", "p", "p", "o", "r", "t", "e", "d", " ", "m", "e",
      "d", "i", "a", " ", "t", "y", "p", "e", ".">>
\* 'Request was throttled.'
S_Throttled ==
    <<"R", "e", "q", "u", "e", "s", "t", " ", "w", "a", "s", " ", "t", "h",
      "r", "o", "t", "t", "l", "e", "d", ".">>
\* 'throttled'
S_throttled ==
    <<"t", "h", "r", "o", "t", "t", "l", "e", "d">>
\* 'Error message.'
S_ErrorMessage ==
    <<"E", "r", "r", "o", "r", " ", "m", "e", "s", "s", "a", "g", "e", ".">>
\* 'Another error.'
S_AnotherError ==
    <<"A", "n", "o", "t", "h", "e", "r", " ", "e", "r", "r", "o", "r", ".">>
\* 'Unexpected error'
S_UnexpectedError ==
    <<"U", "n", "e", "x", "p", "e", "c", "t", "e", "d", " ", "e", "r", "r",
      "o", "r">>
\* 'secret internals'
S_SecretInternals ==
    <<"s", "e", "c", "r", "e", "t", " ", "i", "n", "t", "e", "r", "n", "a",
      "l", "s">>
\* 'Could not satisfy the request Accept header.'
S_NotAcceptable ==
    <<"C", "o", "u", "l", "d", " ", "n", "o", "t", " ", "s", "a", "t", "i",
      "s", "f", "y", " ", "t", "h", "e", " ", "r", "e", "q", "u", "e", "s",
      "t", " ", "A", "c", "c", "e", "p", "t", " ", "h", "e", "a", "d", "e",
      "r", ".">>
\* 'not_acceptable'
S_not_acceptable ==
    <<"n", "o", "t", "_", "a", "c", "c", "e", "p", "t", "a", "b", "l", "e">>
\* 'Expected available in {wait} second.'
S_ExpectedSingular ==
    <<"E", "x", "p", "e", "c", "t", "e", "d", " ", "a", "v", "a", "i", "l",
      "a", "b", "l", "e", " ", "i", "n", " ", "{", "w", "a", "i", "t", "}",
      " ", "s", "e", "c", "o", "n", "d", ".">>
\* 'Expected available in {wait} seconds.'
S_ExpectedPlural ==
    <<"E", "x", "p", "e", "c", "t", "e", "d", " ", "a", "v", "a", "i", "l",
      "a", "b", "l", "e", " ", "i", "n", " ", "{", "w", "a", "i", "t", "}",
      " ", "s", "e", "c", "o", "n", "d", "s", ".">>
\* 'Request was throttled. Expected available in 60 seconds.'
S_Throttled60 ==
    <<"R", "e", "q", "u", "e", "s", "t", " ", "w", "a", "s", " ", "t", "h",
      "r", "o", "t", "t", "l", "e", "d", ".", " ", "E", "x", "p", "e", "c",
      "t", "e", "d", " ", "a", "v", "a", "i", "l", "a", "b", "l", "e", " ",
      "i", "n", " ", "6", "0", " ", "s", "e", "c", "o", "n", "d", "s", ".">>
\* '{wait}'
S_wait_field ==
    <<"{", "w", "a", "i", "t", "}">>
\* '{method}'
S_method_field ==
    <<"{", "m", "e", "t", "h", "o", "d", "}">>
\* '{media_type}'
S_media_type_field ==
    <<"{", "m", "e", "d", "i", "a", "_", "t", "y", "p", "e", "}">>
\* 'GET'
S_GET ==
    <<"G", "E", "T">>
\* 'application/json'
S_application_json ==
    <<"a", "p", "p", "l", "i", "c", "a", "t", "i", "o", "n", "/", "j", "s",
      "o", "n">>
\* ' '
S_space ==
    <<" ">>
\* 'Bearer'
S_Bearer ==
    <<"B", "e", "a", "r", "e", "r">>
\* 'WWW-Authenticate'
S_WWW_Authenticate ==
    <<"W", "W", "W", "-", "A", "u", "t", "h", "e", "n", "t", "i", "c", "a",
      "t", "e">>
\* 'Retry-After'
S_Retry_After ==
    <<"R", "e", "t", "r", "y", "-", "A", "f", "t", "e", "r">>
\* 'Yet another error.'
S_YetAnotherError ==
    <<"Y", "e", "t", " ", "a", "n", "o", "t", "h", "e", "r", " ", "e", "r",
      "r", "o", "r", ".">>

\* 'family_tree_name'
S_family_tree_name ==
    <<"f", "a", "m", "i", "l", "y", "_", "t", "r", "e", "e", "_", "n", "a",
      "m", "e">>
\* 'familyTreeName'
S_familyTreeName ==
    <<"f", "a", "m", "i", "l", "y", "T", "r", "e", "e", "N", "a", "m", "e">>
\* '_special'
S_special ==
    <<"_", "s", "p", "e", "c", "i", "a", "l">>
\* 'a_b_c'
S_a_b_c ==
    <<"a", "_", "b", "_", "c">>
\* 'Error message: %(msg)s.'
S_ErrorTemplate ==
    <<"E", "r", "r", "o", "r", " ", "m", "e", "s", "s", "a", "g", "e", ":",
      " ", "%", "(", "m", "s", "g", ")", "s", ".">>
\* '%(msg)s'
S_msg_param ==
    <<"%", "(", "m", "s", "g", ")", "s">>
\* 'ERROR'
S_ERROR ==
    <<"E", "R", "R", "O", "R">>
\* 'Error message: ERROR.'
S_ErrorRendered ==
    <<"E", "r", "r", "o", "r", " ", "m", "e", "s", "s", "a", "g", "e", ":",
      " ", "E", "R", "R", "O", "R", ".">>

(***************************************************************************)
(* Python values.                                                          *)
(***************************************************************************)
PyStr(s) == [t |-> "str", v |-> s]
PyList(xs) == [t |-> "list", v |-> xs]
PyDict(items) == [t |-> "dict", v |-> items]
PyNone == [t |-> "none", v |-> <<>>]
\* an exception that leaves the function instead of a returned value
Raise(name) == [t |-> "raise", v |-> name]
Item(key, value) == [k |-> key, v |-> value]

isinstance(x, ty) == x.t = ty

\* position of key in the items of a dict, 0 when absent
IndexOfKey(items, key) ==
    IF \E i \in 1..Len(items) : items[i].k = key
    THEN CHOOSE i \in 1..Len(items) : items[i].k = key
    ELSE 0

HasKey(items, key) == IndexOfKey(items, key) # 0

DictGet(items, key) == items[IndexOfKey(items, key)].v

\* d[key] = value: an existing key keeps its position, a new key goes last
DictSet(items, key, value) ==
    IF HasKey(items, key)
    THEN [items EXCEPT ![IndexOfKey(items, key)].v = value]
    ELSE Append(items, Item(key, value))

\* d.pop(key)
DictPop(items, key) ==
    LET n == IndexOfKey(items, key)
    IN  IF n = 0 THEN items
        ELSE SubSeq(items, 1, n - 1) \o SubSeq(items, n + 1, Len(items))

\* dict(pairs): later pairs overwrite the value of an earlier equal key
RECURSIVE dict(_)
dict(pairs) ==
    IF pairs = <<>> THEN <<>>
    ELSE LET n == Len(pairs)
         IN  DictSet(dict(SubSeq(pairs, 1, n - 1)), pairs[n].k, pairs[n].v)

(***************************************************************************)
(* settings.py: the process-wide configuration, fixed at start.            *)
(***************************************************************************)
VARIABLES CAMELIZE, FIELDS_SEPARATOR, EXTRA_HANDLERS

settings == <<CAMELIZE, FIELDS_SEPARATOR, EXTRA_HANDLERS>>

\* rest_framework.settings.api_settings.NON_FIELD_ERRORS_KEY (its default)
NON_FIELD_ERRORS_KEY == S_non_field_errors

(***************************************************************************)
(* utils.py                                                                *)
(***************************************************************************)
LowerLetters ==
    <<"a", "b", "c", "d", "e", "f", "g", "h", "i", "j", "k", "l", "m",
      "n", "o", "p", "q", "r", "s", "t", "u", "v", "w", "x", "y", "z">>

UpperLetters ==
    <<"A", "B", "C", "D", "E", "F", "G", "H", "I", "J", "K", "L", "M",
      "N", "O", "P", "Q", "R", "S", "T", "U", "V", "W", "X", "Y", "Z">>

Digits == {"0", "1", "2", "3", "4", "5", "6", "7", "8", "9"}

IsLower(c) == \E i \in 1..Len(LowerLetters) : LowerLetters[i] = c

\* the character class [a-z0-9]
IsLowerOrDigit(c) == IsLower(c) \/ c \in Digits

\* str.upper() of one character
upper(c) ==
    IF IsLower(c)
    THEN UpperLetters[CHOOSE i \in 1..Len(LowerLetters) : LowerLetters[i] = c]
    ELSE c

\* str.lower() of one character
lower(c) ==
    IF \E i \in 1..Len(UpperLetters) : UpperLetters[i] = c
    THEN LowerLetters[CHOOSE i \in 1..Len(UpperLetters) : UpperLetters[i] = c]
    ELSE c

\* mutant: the length of the match is not looked at, the underscore always
\* goes
underscore_to_camel_without_length_check(group) ==
    IF Len(group) = 3 THEN <<group[1], upper(group[3])>> ELSE <<upper(group[2])>>

underscore_to_camel(group) ==
    IF Len(group) = 3 THEN <<group[1], upper(group[3])>> ELSE group

\* re.sub(r"[a-z0-9]?_[a-z0-9]", underscore_to_camel, s) from position i:
\* matches are taken left to right and do not overlap; at each position the
\* optional first character is tried first (greedy) and then given up.
RECURSIVE re_sub(_, _)
re_sub(s, i) ==
    IF i > Len(s) THEN <<>>
    ELSE IF /\ i + 2 <= Len(s)
            /\ IsLowerOrDigit(s[i])
            /\ s[i + 1] = "_"
            /\ IsLowerOrDigit(s[i + 2])
         THEN underscore_to_camel(SubSeq(s, i, i + 2)) \o re_sub(s, i + 3)
    ELSE IF /\ i + 1 <= Len(s)
            /\ s[i] = "_"
            /\ IsLowerOrDigit(s[i + 1])
         THEN underscore_to_camel(SubSeq(s, i, i + 1)) \o re_sub(s, i + 2)
    ELSE <<s[i]>> \o re_sub(s, i + 1)

camelize(s) == IF ~CAMELIZE THEN s ELSE re_sub(s, 1)

\* mutant: the key is joined to the parent key even when there is none
flat_key_always_joined(parent_key, key) ==
    parent_key \o FIELDS_SEPARATOR \o key

\* flat_k = sep.join([parent_key, k]) if parent_key and sep else k
flat_key(parent_key, key) ==
    IF Len(parent_key) > 0 /\ Len(FIELDS_SEPARATOR) > 0
    THEN parent_key \o FIELDS_SEPARATOR \o key
    ELSE key

\* flatten_dict(data, parent_key): data and the result are the items of a
\* dict; flatten_pairs gathers the list "items" from the i-th key of data on.
RECURSIVE flatten_dict(_, _)
RECURSIVE flatten_pairs(_, _, _)
flatten_pairs(data, parent_key, i) ==
    IF i > Len(data) THEN <<>>
    ELSE LET flat_k == flat_key(parent_key, data[i].k)
             value == data[i].v
         IN  (IF isinstance(value, "dict")
              THEN flatten_dict(value.v, flat_k)
              ELSE <<Item(flat_k, value)>>)
             \o flatten_pairs(data, parent_key, i + 1)

flatten_dict(data, parent_key) == dict(flatten_pairs(data, parent_key, 1))

(***************************************************************************)
(* formatter.py                                                            *)
(***************************************************************************)
\* dataclass InvalidParam, as asdict() renders it
InvalidParam(name, reason) ==
    PyDict(<<Item(S_name, PyStr(name)), Item(S_reason, PyList(reason))>>)

\* dataclass APIErrorResponse with its defaults
APIErrorResponse == [title |-> S_empty, detail |-> PyNone, invalid_params |-> PyNone]

\* for key in list(response_dict.keys()):
\*     response_dict[camelize(key)] = response_dict.pop(key)
RECURSIVE rekey(_, _, _)
rekey(response_dict, keys, i) ==
    IF i > Len(keys) THEN response_dict
    ELSE rekey(DictSet(DictPop(response_dict, keys[i]),
                       camelize(keys[i]),
                       DictGet(response_dict, keys[i])),
               keys, i + 1)

\* mutant: the keys of the response are left as asdict() gives them
to_dict_keeping_keys(data) ==
    PyDict(<<Item(S_title, PyStr(data.title)),
             Item(S_detail, data.detail),
             Item(S_invalid_params, data.invalid_params)>>)

to_dict(data) ==
    LET response_dict == <<Item(S_title, PyStr(data.title)),
                           Item(S_detail, data.detail),
                           Item(S_invalid_params, data.invalid_params)>>
    IN  PyDict(rekey(response_dict, <<S_title, S_detail, S_invalid_params>>, 1))

IsValidationError(exc) == exc.cls = "ValidationError"

\* mutant: only a bare string is compared with the default message
_is_exc_detail_same_bare_string_only(exc) ==
    isinstance(exc.detail, "str") /\ exc.detail.v = exc.default_detail

_is_exc_detail_same_as_default_detail(exc) ==
    \/ isinstance(exc.detail, "str") /\ exc.detail.v = exc.default_detail
    \/ /\ isinstance(exc.detail, "list")
       /\ Len(exc.detail.v) = 1
       /\ isinstance(exc.detail.v[1], "str")
       /\ exc.detail.v[1].v = exc.default_detail

IsNonFieldErrorsKey(field) == field \in {NON_FIELD_ERRORS_KEY, S_all}

\* the loop of _format_exc_detail_dict from the i-th flattened item on
RECURSIVE gather_invalid_params(_, _)
gather_invalid_params(items, i) ==
    IF i > Len(items) THEN <<>>
    ELSE LET field == items[i].k
             error == items[i].v
         IN  (IF IsNonFieldErrorsKey(field) THEN <<>>
              ELSE <<InvalidParam(camelize(field),
                                  IF isinstance(error, "list")
                                  THEN error.v ELSE <<error>>)>>)
             \o gather_invalid_params(items, i + 1)

\* mutant: a list of non-field errors is appended as one element
RECURSIVE gather_non_field_errors_appending(_, _)
gather_non_field_errors_appending(items, i) ==
    IF i > Len(items) THEN <<>>
    ELSE LET field == items[i].k
             error == items[i].v
         IN  (IF ~IsNonFieldErrorsKey(field) THEN <<>> ELSE <<error>>)
             \o gather_non_field_errors_appending(items, i + 1)

RECURSIVE gather_non_field_errors(_, _)
gather_non_field_errors(items, i) ==
    IF i > Len(items) THEN <<>>
    ELSE LET field == items[i].k
             error == items[i].v
         IN  (IF ~IsNonFieldErrorsKey(field) THEN <<>>
              ELSE IF isinstance(error, "list") THEN error.v ELSE <<error>>)
             \o gather_non_field_errors(items, i + 1)

\* mutant: detail and invalid_params are set even when nothing was gathered
_format_exc_detail_dict_setting_empty(data, exc_detail) ==
    LET flat == flatten_dict(exc_detail.v, S_empty)
    IN  to_dict([data EXCEPT
            !.invalid_params = PyList(gather_invalid_params(flat, 1)),
            !.detail = PyList(gather_non_field_errors(flat, 1))])

_format_exc_detail_dict(data, exc_detail) ==
    LET flat == flatten_dict(exc_detail.v, S_empty)
        invalid_params == gather_invalid_params(flat, 1)
        non_field_errors == gather_non_field_errors(flat, 1)
    IN  to_dict([data EXCEPT
            !.invalid_params = IF Len(invalid_params) > 0
                               THEN PyList(invalid_params) ELSE @,
            !.detail = IF Len(non_field_errors) > 0
                       THEN PyList(non_field_errors) ELSE @])

\* mutant: a nested list is appended as one element (append for extend)
RECURSIVE gather_detail_appending_lists(_, _)
gather_detail_appending_lists(elems, i) ==
    IF i > Len(elems) THEN <<>>
    ELSE <<elems[i]>> \o gather_detail_appending_lists(elems, i + 1)

\* the loop of _format_exc_detail_list from the i-th element on: a str is
\* appended, the elements of a list are spliced in
RECURSIVE gather_detail(_, _)
gather_detail(elems, i) ==
    IF i > Len(elems) THEN <<>>
    ELSE (IF isinstance(elems[i], "str") THEN <<elems[i]>> ELSE elems[i].v)
         \o gather_detail(elems, i + 1)

\* mutant: an element that is neither a str nor a list is skipped
_format_exc_detail_list_skipping_unexpected(data, exc_detail) ==
    LET expected == SelectSeq(exc_detail.v,
                        LAMBDA error : isinstance(error, "str")
                                       \/ isinstance(error, "list"))
        detail == gather_detail(expected, 1)
    IN  to_dict([data EXCEPT
            !.detail = IF Len(detail) > 0 THEN PyList(detail) ELSE @])

_format_exc_detail_list(data, exc_detail) ==
    IF \E i \in 1..Len(exc_detail.v) :
           ~isinstance(exc_detail.v[i], "str") /\ ~isinstance(exc_detail.v[i], "list")
    THEN Raise("TypeError")
    ELSE LET detail == gather_detail(exc_detail.v, 1)
         IN  to_dict([data EXCEPT
                 !.detail = IF Len(detail) > 0 THEN PyList(detail) ELSE @])

\* the part of format_exc after the title is set (lines 96-107)
format_exc_detail(data, exc) ==
    LET exc_detail == IF ~isinstance(exc.detail, "str")
                      THEN exc.detail ELSE PyList(<<exc.detail>>)
    IN  IF isinstance(exc_detail, "dict")
        THEN _format_exc_detail_dict(data, exc_detail)
        ELSE _format_exc_detail_list(data, exc_detail)

\* mutant: the default message is the title of a validation error too
format_exc_title_always_default(exc) ==
    LET data == [APIErrorResponse EXCEPT !.title = exc.default_detail]
    IN  IF IsValidationError(exc)
        THEN format_exc_detail(data, exc)
        ELSE IF _is_exc_detail_same_as_default_detail(exc)
             THEN to_dict(data)
             ELSE format_exc_detail(data, exc)

\* mutant: the default-detail short cut is taken for validation errors too
format_exc_short_cut_for_all(exc) ==
    LET data == [APIErrorResponse EXCEPT
                    !.title = IF IsValidationError(exc)
                              THEN S_ValidationError ELSE exc.default_detail]
    IN  IF _is_exc_detail_same_as_default_detail(exc)
        THEN to_dict(data)
        ELSE format_exc_detail(data, exc)

format_exc(exc) ==
    IF IsValidationError(exc)
    THEN format_exc_detail([APIErrorResponse EXCEPT !.title = S_ValidationError], exc)
    ELSE LET data == [APIErrorResponse EXCEPT !.title = exc.default_detail]
         IN  IF _is_exc_detail_same_as_default_detail(exc)
             THEN to_dict(data)
             ELSE format_exc_detail(data, exc)

(***************************************************************************)
(* String methods used by the source and by the framework's exceptions.    *)
(***************************************************************************)
StartsWithAt(s, i, old) ==
    /\ i + Len(old) - 1 <= Len(s)
    /\ SubSeq(s, i, i + Len(old) - 1) = old

\* s.replace(old, new) from position i, for a non-empty old
RECURSIVE replace(_, _, _, _)
replace(s, old, new, i) ==
    IF i > Len(s) THEN <<>>
    ELSE IF StartsWithAt(s, i, old)
         THEN new \o replace(s, old, new, i + Len(old))
         ELSE <<s[i]>> \o replace(s, old, new, i + 1)

\* s.capitalize(): the first character upper-cased, the others lower-cased
capitalize(s) ==
    [i \in 1..Len(s) |-> IF i = 1 THEN upper(s[i]) ELSE lower(s[i])]

DigitChars == <<"0", "1", "2", "3", "4", "5", "6", "7", "8", "9">>

\* "%d" % n for n >= 0
RECURSIVE decimal(_)
decimal(n) ==
    IF n < 10 THEN <<DigitChars[n + 1]>>
    ELSE decimal(n \div 10) \o <<DigitChars[(n % 10) + 1]>>

(***************************************************************************)
(* Exceptions.  An exception object is a record: its class, the class      *)
(* attributes as the instance sees them (an assignment to the instance     *)
(* shadows the class attribute), its detail and the optional attributes    *)
(* auth_header and wait; message is str(exc) of a non-API exception.       *)
(***************************************************************************)
APIExceptionClasses ==
    {"APIException", "ValidationError", "AuthenticationFailed", "PermissionDenied",
     "NotFound", "MethodNotAllowed", "NotAcceptable", "UnsupportedMediaType",
     "Throttled", "ServerError"}

\* status_code, default_detail and default_code of each class
ClassAttrs(cls) ==
    CASE cls = "APIException" ->
            [status_code |-> 500, default_detail |-> S_AServerErrorOccurred,
             default_code |-> S_error]
      [] cls = "ServerError" ->
            [status_code |-> 500, default_detail |-> S_ServerError,
             default_code |-> S_internal_server_error]
      [] cls = "ValidationError" ->
            [status_code |-> 400, default_detail |-> S_InvalidInput,
             default_code |-> S_invalid]
      [] cls = "AuthenticationFailed" ->
            [status_code |-> 401, default_detail |-> S_AuthenticationFailed,
             default_code |-> S_authentication_failed]
      [] cls = "PermissionDenied" ->
            [status_code |-> 403, default_detail |-> S_PermissionDenied,
             default_code |-> S_permission_denied]
      [] cls = "NotFound" ->
            [status_code |-> 404, default_detail |-> S_NotFound,
             default_code |-> S_not_found]
      [] cls = "MethodNotAllowed" ->
            [status_code |-> 405, default_detail |-> S_MethodTemplate,
             default_code |-> S_method_not_allowed]
      [] cls = "NotAcceptable" ->
            [status_code |-> 406, default_detail |-> S_NotAcceptable,
             default_code |-> S_not_acceptable]
      [] cls = "UnsupportedMediaType" ->
            [status_code |-> 415, default_detail |-> S_MediaTemplate,
             default_code |-> S_unsupported_media_type]
      [] cls = "Throttled" ->
            [status_code |-> 429, default_detail |-> S_Throttled,
             default_code |-> S_throttled]
      [] OTHER ->
            [status_code |-> 0, default_detail |-> S_empty, default_code |-> S_empty]

PyInt(n) == [t |-> "int", v |-> n]

\* every class of exception of the model, and "none" for no exception
ExceptionClasses ==
    APIExceptionClasses
    \cup {"DjangoValidationError", "Http404", "DjangoPermissionDenied",
          "Exception", "KeyError", "none"}

\* the class attributes as they are in the running process: what they are
\* at import, unless something assigns them
VARIABLE classes

ImportedClasses == [cls \in ExceptionClasses |-> ClassAttrs(cls)]

\* a new exception object; id tells objects apart, the caller's own is 0
NewException(cls, detail, message) ==
    [cls |-> cls,
     id |-> 0,
     status_code |-> classes[cls].status_code,
     default_detail |-> classes[cls].default_detail,
     default_code |-> classes[cls].default_code,
     detail |-> detail,
     auth_header |-> PyNone,
     wait |-> PyNone,
     message |-> message]

\* APIException(detail): a missing detail is the class's default message;
\* ValidationError wraps a detail that is neither a list nor a dict in a list
APIException(cls, detail) ==
    LET given == IF detail = PyNone THEN PyStr(classes[cls].default_detail)
                 ELSE detail
        kept == IF /\ cls = "ValidationError"
                   /\ ~isinstance(given, "dict")
                   /\ ~isinstance(given, "list")
                THEN PyList(<<given>>) ELSE given
    IN  NewException(cls, kept, PyNone)

\* MethodNotAllowed(method): the detail is the template with the method
MethodNotAllowed(method) ==
    APIException("MethodNotAllowed",
        PyStr(replace(classes["MethodNotAllowed"].default_detail, S_method_field, method, 1)))

\* UnsupportedMediaType(media_type)
UnsupportedMediaType(media_type) ==
    APIException("UnsupportedMediaType",
        PyStr(replace(classes["UnsupportedMediaType"].default_detail, S_media_type_field, media_type, 1)))

\* Throttled(wait): with a wait, the detail tells it, singular for 1
Throttled(wait) ==
    LET extra == IF wait.v = 1 THEN S_ExpectedSingular ELSE S_ExpectedPlural
        default_detail == classes["Throttled"].default_detail
        detail == IF wait = PyNone THEN default_detail
                  ELSE default_detail \o S_space
                       \o replace(extra, S_wait_field, decimal(wait.v), 1)
    IN  [APIException("Throttled", PyStr(detail)) EXCEPT !.wait = wait]

\* an exception of Django or of Python, not an APIException
ForeignException(cls, payload, message) == NewException(cls, payload, message)

IsAPIException(exc) == exc.cls \in APIExceptionClasses

(***************************************************************************)
(* extra_handlers.py                                                       *)
(***************************************************************************)
\* mutant: the default message is rewritten for every kind of exception
set_default_detail_for_every_kind(exc) ==
    LET title == capitalize(replace(exc.default_code, S_underscore, S_space, 1))
                 \o S_dot
    IN  [exc EXCEPT !.default_detail = title]

set_default_detail_to_formatted_exc_default_code(exc) ==
    IF exc.cls \notin {"MethodNotAllowed", "UnsupportedMediaType"}
    THEN exc
    ELSE LET title == capitalize(replace(exc.default_code, S_underscore, S_space, 1))
                      \o S_dot
         IN  [exc EXCEPT !.default_detail = title]

\* a handler named in EXTRA_HANDLERS, called with the exception: the
\* library's own handler, or a user's handler that only observes (logging)
\* or that fails
call_handler(handler, exc) ==
    IF handler = "set_default_detail_to_formatted_exc_default_code"
    THEN set_default_detail_to_formatted_exc_default_code(exc)
    ELSE exc

\* mutant: the default handler assigns the default message of the class
classes_after_assigning_to_the_class(handler, exc) ==
    IF /\ handler = "set_default_detail_to_formatted_exc_default_code"
       /\ exc.cls \in {"MethodNotAllowed", "UnsupportedMediaType"}
    THEN [classes EXCEPT ![exc.cls].default_detail =
              set_default_detail_to_formatted_exc_default_code(exc).default_detail]
    ELSE classes

\* the class attributes after handler(exc): the default handler assigns
\* exc.default_detail, an attribute of the instance, and no handler of the
\* model assigns an attribute of a class
classes_after(handler, exc) == classes

\* mutant: what a handler raises is swallowed
handler_raises_nothing(handler) == PyNone

\* what the call of a handler raises, None when it returns
handler_raises(handler) ==
    IF handler = "fail" THEN Raise("RuntimeError") ELSE PyNone

(***************************************************************************)
(* handlers.py                                                             *)
(***************************************************************************)
\* mutant: the configured handlers come before the default one
extra_handlers_to_apply_default_last(settings_extra_handlers) ==
    settings_extra_handlers
    \o <<"set_default_detail_to_formatted_exc_default_code">>

\* apply_extra_handlers: default_extra_handlers + settings_extra_handlers
extra_handlers_to_apply(settings_extra_handlers) ==
    <<"set_default_detail_to_formatted_exc_default_code">>
    \o settings_extra_handlers

(***************************************************************************)
(* exception_handler.py                                                    *)
(***************************************************************************)
\* a Django ValidationError inside the payload of another: its message
\* and its params, None when it has none
DjangoError(message, params) == [t |-> "error", v |-> message, params |-> params]

\* the message of one error of the payload, its params filled in
render(error) ==
    IF ~isinstance(error, "error") THEN error
    ELSE IF error.params = PyNone THEN PyStr(error.v)
    ELSE PyStr(replace(error.v, S_msg_param, error.params.v, 1))

\* rest_framework.fields.get_error_detail: the rendered messages of
\* error_list as a list, those of error_dict as a list under each field
get_error_detail(exc) ==
    LET payload == exc.detail
        rendered(value) ==
            IF isinstance(value, "list")
            THEN PyList([i \in 1..Len(value.v) |-> render(value.v[i])])
            ELSE PyList(<<render(value)>>)
    IN  IF isinstance(payload, "dict")
        THEN PyDict([i \in 1..Len(payload.v) |->
                 Item(payload.v[i].k, rendered(payload.v[i].v))])
        ELSE rendered(payload)

\* rest_framework.serializers.as_serializer_error of a Django
\* ValidationError: messages go under the non-field-errors key, the values
\* of a mapping become lists
as_serializer_error(exc) ==
    LET detail == get_error_detail(exc)
    IN  IF isinstance(detail, "dict")
        THEN PyDict([i \in 1..Len(detail.v) |->
                 Item(detail.v[i].k,
                      IF isinstance(detail.v[i].v, "list")
                      THEN detail.v[i].v ELSE PyList(<<detail.v[i].v>>))])
        ELSE IF isinstance(detail, "list")
        THEN PyDict(<<Item(NON_FIELD_ERRORS_KEY, detail)>>)
        ELSE PyDict(<<Item(NON_FIELD_ERRORS_KEY, PyList(<<detail>>))>>)

\* an object constructed while exc exists is another object than exc
Another(exc, new) == [new EXCEPT !.id = exc.id + 1]

\* mutant: the translated exception is given the original's message
_convert_django_exc_to_drf_api_exc_keeping_message(exc) ==
    IF exc.cls = "DjangoValidationError"
    THEN Another(exc, APIException("ValidationError", as_serializer_error(exc)))
    ELSE IF exc.cls = "Http404"
    THEN Another(exc, APIException("NotFound", exc.message))
    ELSE IF exc.cls = "DjangoPermissionDenied"
    THEN Another(exc, APIException("PermissionDenied", exc.message))
    ELSE exc

_convert_django_exc_to_drf_api_exc(exc) ==
    IF exc.cls = "DjangoValidationError"
    THEN Another(exc, APIException("ValidationError", as_serializer_error(exc)))
    ELSE IF exc.cls = "Http404"
    THEN Another(exc, APIException("NotFound", PyNone))
    ELSE IF exc.cls = "DjangoPermissionDenied"
    THEN Another(exc, APIException("PermissionDenied", PyNone))
    ELSE exc

\* Python truth of an attribute value
Truthy(x) ==
    CASE x.t = "none" -> FALSE
      [] x.t = "int" -> x.v # 0
      [] OTHER -> Len(x.v) > 0

\* mutant: the authentication challenge is sent under Retry-After's name
_get_response_headers_under_one_name(exc) ==
    (IF Truthy(exc.auth_header)
     THEN <<Item(S_Retry_After, exc.auth_header)>> ELSE <<>>)
    \o
    (IF Truthy(exc.wait)
     THEN <<Item(S_Retry_After, PyStr(decimal(exc.wait.v)))>> ELSE <<>>)

_get_response_headers(exc) ==
    (IF Truthy(exc.auth_header)
     THEN <<Item(S_WWW_Authenticate, exc.auth_header)>> ELSE <<>>)
    \o
    (IF Truthy(exc.wait)
     THEN <<Item(S_Retry_After, PyStr(decimal(exc.wait.v)))>> ELSE <<>>)

\* what exception_handler returns for an exception it cannot handle:
\* the class ServerError itself (exceptions.py), not an instance, not a
\* Response and not None
ServerError ==
    [t |-> "class", v |-> "ServerError",
     status_code |-> classes["ServerError"].status_code,
     default_detail |-> classes["ServerError"].default_detail,
     default_code |-> classes["ServerError"].default_code]

\* mutant: the unhandled exception's text is sent back as a 500 body
unhandled_result_with_message(exc) ==
    [t |-> "Response",
     v |-> PyDict(<<Item(S_title, exc.message)>>),
     status |-> classes["ServerError"].status_code,
     headers |-> <<>>]

unhandled_result(exc) == ServerError

\* rest_framework.response.Response(data, status=..., headers=...)
\* mutant: status= is left out of the call, the response has the default
\* status
Response_with_default_status(data, status, headers) ==
    [t |-> "Response", v |-> data, status |-> 200, headers |-> headers]

Response(data, status, headers) ==
    [t |-> "Response", v |-> data, status |-> status, headers |-> headers]

(***************************************************************************)
(* The inputs of the checked instance.                                     *)
(***************************************************************************)
Separators == {S_dot, S_underscore, S_empty}

HandlerLists ==
    {<<"log">>,
     <<"set_default_detail_to_formatted_exc_default_code">>,
     <<"log", "set_default_detail_to_formatted_exc_default_code">>,
     <<"log", "audit">>,
     <<"fail">>,
     <<"log", "fail", "audit">>}

\* every casing and separator without extra handlers, and the default
\* casing and separator with each list of extra handlers
Configurations ==
    {<<c, s, <<>> >> : c \in BOOLEAN, s \in Separators}
    \cup {<<FALSE, S_dot, hs>> : hs \in HandlerLists}

Messages == <<S_ErrorMessage, S_AnotherError, S_YetAnotherError, S_BadCredentials>>

\* the list of the first n messages
MessageList(n) == PyList([i \in 1..n |-> PyStr(Messages[i])])

\* field names: one that camelize changes, one it keeps, and both
\* non-field-error keys
Keys == {S_first_name, S_name, S_non_field_errors, S_all}

\* what a mapping detail holds at a leaf: a message or a list of messages
LeafValues == {PyStr(S_ErrorMessage)} \cup {MessageList(n) : n \in 0..MaxList}

\* the mappings (as items) with n keys, nested mappings' keys counted, whose
\* first value holds j - 1 of them; table[m + 1] is the set of the mappings
\* with m keys
DictsWithFirst(table, n, j) ==
    LET firsts == IF j = 1 THEN LeafValues ELSE {PyDict(d) : d \in table[j]}
        all == { <<Item(key, value)>> \o rest :
                     key \in Keys, value \in firsts, rest \in table[n - j + 1] }
    IN  {d \in all : ~HasKey(Tail(d), d[1].k)}

RECURSIVE DictsWithFirstUpTo(_, _, _)
DictsWithFirstUpTo(table, n, j) ==
    IF j = 0 THEN {}
    ELSE DictsWithFirst(table, n, j) \cup DictsWithFirstUpTo(table, n, j - 1)

RECURSIVE DictTable(_, _)
DictTable(table, size) ==
    IF Len(table) > size THEN table
    ELSE DictTable(Append(table, DictsWithFirstUpTo(table, Len(table), Len(table))),
                   size)

DictsBySize == DictTable(<< {<<>>} >>, MaxNodes)

\* the elements of a list detail: messages, lists of messages, and a
\* mapping, which the formatter does not expect there
ListElements ==
    {PyStr(S_ErrorMessage), PyStr(S_AnotherError)}
    \cup {MessageList(n) : n \in 0..MaxList}
    \cup {PyDict(<<Item(S_name, PyStr(S_ErrorMessage))>>)}

ListDetails ==
    UNION {{PyList(xs) : xs \in [1..n -> ListElements]} : n \in 0..MaxDetailLen}

StringDetails(cls) ==
    {PyNone, PyStr(S_empty), PyStr(S_ErrorMessage),
     PyStr(classes[cls].default_detail),
     PyList(<<PyStr(classes[cls].default_detail)>>)}

\* the exceptions format_exc is called with, in groups: validation errors
\* with a mapping of each size, another API exception with the smaller
\* mappings, and every class with lists, strings and no detail
MappingInputs(cls, size) ==
    [n \in 1..(size + 1) |->
        {APIException(cls, PyDict(d)) : d \in DictsBySize[n]}]

OtherFormatInputs ==
    {APIException("ValidationError", d) :
         d \in ListDetails \cup StringDetails("ValidationError")}
    \cup {APIException("NotFound", d) :
         d \in ListDetails \cup StringDetails("NotFound")}
    \cup UNION {{APIException(cls, d) : d \in StringDetails(cls)} :
         cls \in {"APIException", "AuthenticationFailed", "PermissionDenied"}}
    \cup {MethodNotAllowed(S_GET), UnsupportedMediaType(S_application_json)}
    \cup {Throttled(w) : w \in {PyNone, PyInt(1), PyInt(60)}}

\* mappings with three keys where a nested key meets a key of the same
\* name or a non-field-error key, and one nested twice
NestedMappingInputs ==
    {APIException("ValidationError", PyDict(d)) : d \in
        {<<Item(S_non_field_errors, PyStr(S_ErrorMessage)),
           Item(S_name, PyDict(<<Item(S_non_field_errors, PyStr(S_AnotherError))>>))>>,
         <<Item(S_all, MessageList(1)),
           Item(S_name, PyDict(<<Item(S_non_field_errors, PyStr(S_AnotherError))>>))>>,
         <<Item(S_first_name, PyStr(S_ErrorMessage)),
           Item(S_name, PyDict(<<Item(S_first_name, PyStr(S_AnotherError))>>))>>,
         <<Item(S_name, PyDict(<<Item(S_first_name,
               PyDict(<<Item(S_name, MessageList(2))>>))>>))>>}}

FormatInputs ==
    MappingInputs("ValidationError", MaxNodes)
    \o MappingInputs("NotFound", MaxNodes - 1)
    \o <<OtherFormatInputs, NestedMappingInputs>>

\* the mappings flatten_dict is called with: those of the details, by size
FlattenInputs ==
    [n \in 1..(MaxNodes + 1) |-> DictsBySize[n]]
    \o << {e.detail.v : e \in NestedMappingInputs} >>

\* the strings camelize is called with: those of the tests, the keys of the
\* model and one with two underscores one character apart
CamelizeInputs ==
    {S_empty, S_name, S_first_name, S_family_tree_name, S_special, S_a_b_c,
     S_firstName, S_non_field_errors, S_all, S_invalid_params}

\* exceptions of the host framework and of Python that are not API exceptions
ForeignInputs ==
    {ForeignException("DjangoValidationError", p, PyNone) :
         p \in {PyStr(S_ErrorMessage), MessageList(2),
                DjangoError(S_ErrorTemplate, PyStr(S_ERROR)),
                PyList(<<DjangoError(S_AnotherError, PyNone),
                         DjangoError(S_ErrorTemplate, PyStr(S_ERROR))>>),
                PyDict(<<Item(S_first_name, PyStr(S_ErrorMessage))>>),
                PyDict(<<Item(S_first_name, MessageList(2)),
                         Item(S_name, PyStr(S_AnotherError))>>),
                PyDict(<<Item(S_all, MessageList(1)), Item(S_name, MessageList(2))>>)}}
    \cup {ForeignException(cls, PyNone, m) :
              cls \in {"Http404", "DjangoPermissionDenied"},
              m \in {PyNone, PyStr(S_SecretInternals)}}

UnrecognizedInputs ==
    {ForeignException(cls, PyNone, PyStr(m)) :
         cls \in {"Exception", "KeyError"},
         m \in {S_UnexpectedError, S_SecretInternals}}

\* the exceptions exception_handler is called with
HandlerInputs ==
    {APIException(cls, PyNone) :
         cls \in {"NotFound", "PermissionDenied", "NotAcceptable", "ValidationError"}}
    \cup {[APIException("AuthenticationFailed", d) EXCEPT !.auth_header = h] :
         d \in {PyNone, PyStr(S_BadCredentials)}, h \in {PyNone, PyStr(S_Bearer)}}
    \cup {MethodNotAllowed(S_GET), UnsupportedMediaType(S_application_json)}
    \cup {Throttled(w) : w \in {PyNone, PyInt(0), PyInt(1), PyInt(60)}}
    \cup {APIException("ValidationError", d) :
         d \in {PyStr(S_ErrorMessage), MessageList(2),
                PyList(<<PyDict(<<Item(S_name, PyStr(S_ErrorMessage))>>)>>),
                PyDict(<<Item(S_first_name, PyStr(S_ErrorMessage))>>),
                PyDict(<<Item(S_name,
                    PyDict(<<Item(S_first_name, MessageList(1))>>))>>),
                PyDict(<<Item(S_non_field_errors, MessageList(1)),
                         Item(S_name, PyStr(S_AnotherError))>>)}}
    \cup ForeignInputs
    \cup UnrecognizedInputs

(***************************************************************************)
(* One call at a time: op is the function called, arg the exception (for   *)
(* camelize, the string) it was called with, pc the position inside        *)
(* exception_handler, exc its local variable, ret what the call returned   *)
(* or raised.                                                              *)
(***************************************************************************)
VARIABLES op, pc, arg, exc, hidx, headers, data, ret, rollback, logged, steps

vars == <<CAMELIZE, FIELDS_SEPARATOR, EXTRA_HANDLERS, classes,
          op, pc, arg, exc, hidx, headers, data, ret, rollback, logged, steps>>

NoException == NewException("none", PyNone, PyNone)

\* one step of the running call, as steps records it: what was done, the
\* handler called (if one was) and the identity of the exception object it
\* was done to
Step(kind, handler, e) == [step |-> kind, handler |-> handler, on |-> e.id]

Idle ==
    /\ op = "none"
    /\ pc = "idle"
    /\ arg = NoException
    /\ exc = NoException
    /\ hidx = 0
    /\ headers = <<>>
    /\ data = PyNone
    /\ ret = PyNone
    /\ rollback = FALSE
    /\ logged = FALSE
    /\ steps = <<>>

Init ==
    /\ classes = ImportedClasses
    /\ \E c \in Configurations :
           /\ CAMELIZE = c[1]
           /\ FIELDS_SEPARATOR = c[2]
           /\ EXTRA_HANDLERS = c[3]
    /\ Idle

\* exception_handler(exc, context) is entered
CallExceptionHandler ==
    /\ pc = "idle"
    /\ \E e \in HandlerInputs :
           /\ arg' = e
           /\ exc' = e
    /\ op' = "exception_handler"
    /\ pc' = "handlers"
    /\ hidx' = 1
    /\ UNCHANGED <<settings, classes, headers, data, ret, rollback, logged, steps>>

\* _apply_extra_handlers: the next handler of EXTRA_HANDLERS is called; what
\* it raises leaves exception_handler
ApplyExtraHandler ==
    /\ pc = "handlers"
    /\ hidx <= Len(EXTRA_HANDLERS)
    /\ LET handler == EXTRA_HANDLERS[hidx]
       IN  /\ steps' = Append(steps, Step("handler", handler, exc))
           /\ classes' = classes_after(handler, exc)
           /\ IF handler_raises(handler) # PyNone
              THEN /\ ret' = handler_raises(handler)
                   /\ pc' = "done"
                   /\ UNCHANGED <<exc, hidx>>
              ELSE /\ exc' = call_handler(handler, exc)
                   /\ hidx' = hidx + 1
                   /\ UNCHANGED <<pc, ret>>
    /\ UNCHANGED <<settings, op, arg, headers, data, rollback, logged>>

\* mutant: the exception is translated before the handlers are called
ConvertException_before_handlers ==
    /\ pc = "handlers"
    /\ \/ /\ hidx = 1
          /\ \A i \in 1..Len(steps) : steps[i].step # "convert"
          /\ exc' = _convert_django_exc_to_drf_api_exc(exc)
          /\ steps' = Append(steps, Step("convert", "", exc))
          /\ pc' = pc
       \/ /\ hidx > Len(EXTRA_HANDLERS)
          /\ \E i \in 1..Len(steps) : steps[i].step = "convert"
          /\ pc' = "check"
          /\ UNCHANGED <<exc, steps>>
    /\ UNCHANGED <<settings, classes, op, arg, hidx, headers, data, ret, rollback, logged>>

\* the handlers are through: exc = _convert_django_exc_to_drf_api_exc(exc)
ConvertException ==
    /\ pc = "handlers"
    /\ hidx > Len(EXTRA_HANDLERS)
    /\ exc' = _convert_django_exc_to_drf_api_exc(exc)
    /\ pc' = "check"
    /\ steps' = Append(steps, Step("convert", "", exc))
    /\ UNCHANGED <<settings, classes, op, arg, hidx, headers, data, ret, rollback, logged>>

\* not an APIException: logged, and ServerError is returned
ReturnServerError ==
    /\ pc = "check"
    /\ ~IsAPIException(exc)
    /\ logged' = TRUE
    /\ ret' = unhandled_result(exc)
    /\ pc' = "done"
    /\ steps' = Append(steps, Step("unrecognized", "", exc))
    /\ UNCHANGED <<settings, classes, op, arg, exc, hidx, headers, data, rollback>>

\* an APIException: headers = _get_response_headers(exc)
GetResponseHeaders ==
    /\ pc = "check"
    /\ IsAPIException(exc)
    /\ headers' = _get_response_headers(exc)
    /\ pc' = "format"
    /\ steps' = steps \o <<Step("recognized", "", exc), Step("headers", "", exc)>>
    /\ UNCHANGED <<settings, classes, op, arg, exc, hidx, data, ret, rollback, logged>>

\* mutant: the rollback is signalled before the exception is formatted
FormatException_after_rollback ==
    /\ pc = "format"
    /\ rollback' = TRUE
    /\ LET r == format_exc(exc)
       IN  IF isinstance(r, "raise")
           THEN /\ ret' = r
                /\ pc' = "done"
                /\ data' = data
           ELSE /\ data' = r
                /\ pc' = "respond"
                /\ ret' = ret
    /\ steps' = steps \o <<Step("set_rollback", "", exc), Step("format", "", exc)>>
    /\ UNCHANGED <<settings, classes, op, arg, exc, hidx, headers, logged>>

\* data = formatter.format_exc(exc); a TypeError leaves exception_handler
FormatException ==
    /\ pc = "format"
    /\ LET r == format_exc(exc)
       IN  IF isinstance(r, "raise")
           THEN /\ ret' = r
                /\ pc' = "done"
                /\ data' = data
           ELSE /\ data' = r
                /\ pc' = "rollback"
                /\ ret' = ret
    /\ steps' = Append(steps, Step("format", "", exc))
    /\ UNCHANGED <<settings, classes, op, arg, exc, hidx, headers, rollback, logged>>

\* set_rollback()
SetRollback ==
    /\ pc = "rollback"
    /\ rollback' = TRUE
    /\ pc' = "respond"
    /\ steps' = Append(steps, Step("set_rollback", "", exc))
    /\ UNCHANGED <<settings, classes, op, arg, exc, hidx, headers, data, ret, logged>>

\* return Response(data, status=exc.status_code, headers=headers)
ReturnResponse ==
    /\ pc = "respond"
    /\ ret' = Response(data, exc.status_code, headers)
    /\ pc' = "done"
    /\ steps' = Append(steps, Step("respond", "", exc))
    /\ UNCHANGED <<settings, classes, op, arg, exc, hidx, headers, data, rollback, logged>>

\* handlers.apply_extra_handlers(exc) is entered
CallApplyExtraHandlers ==
    /\ pc = "idle"
    /\ \E e \in HandlerInputs :
           /\ arg' = e
           /\ exc' = e
    /\ op' = "apply_extra_handlers"
    /\ pc' = "apply"
    /\ hidx' = 1
    /\ UNCHANGED <<settings, classes, headers, data, ret, rollback, logged, steps>>

\* apply_extra_handlers: the next handler of extra_handlers_to_apply is
\* called; what it raises leaves apply_extra_handlers
ApplyHandler ==
    /\ pc = "apply"
    /\ hidx <= Len(extra_handlers_to_apply(EXTRA_HANDLERS))
    /\ LET handler == extra_handlers_to_apply(EXTRA_HANDLERS)[hidx]
       IN  /\ steps' = Append(steps, Step("handler", handler, exc))
           /\ classes' = classes_after(handler, exc)
           /\ IF handler_raises(handler) # PyNone
              THEN /\ ret' = handler_raises(handler)
                   /\ pc' = "done"
                   /\ UNCHANGED <<exc, hidx>>
              ELSE /\ exc' = call_handler(handler, exc)
                   /\ hidx' = hidx + 1
                   /\ UNCHANGED <<pc, ret>>
    /\ UNCHANGED <<settings, op, arg, headers, data, rollback, logged>>

\* apply_extra_handlers: the loop is over, None is returned
ReturnFromApplyExtraHandlers ==
    /\ pc = "apply"
    /\ hidx > Len(extra_handlers_to_apply(EXTRA_HANDLERS))
    /\ pc' = "done"
    /\ UNCHANGED <<settings, classes, op, arg, exc, hidx, headers, data, ret, rollback,
                   logged, steps>>

\* formatter.format_exc(exc) called on its own, as the tests do
CallFormatExc ==
    /\ pc = "idle"
    /\ \E i \in 1..Len(FormatInputs) : \E e \in FormatInputs[i] :
           /\ arg' = e
           /\ exc' = e
           /\ ret' = format_exc(e)
    /\ op' = "format_exc"
    /\ pc' = "done"
    /\ UNCHANGED <<settings, classes, hidx, headers, data, rollback, logged, steps>>

\* utils.flatten_dict(data) called on its own, as the tests do
CallFlattenDict ==
    /\ pc = "idle"
    /\ \E i \in 1..Len(FlattenInputs) : \E d \in FlattenInputs[i] :
           /\ arg' = PyDict(d)
           /\ ret' = PyDict(flatten_dict(d, S_empty))
    /\ op' = "flatten_dict"
    /\ pc' = "done"
    /\ UNCHANGED <<settings, classes, exc, hidx, headers, data, rollback, logged, steps>>

\* utils.flatten_dict called once more, with what it has just returned;
\* data keeps that first result
FlattenAgain ==
    /\ pc = "done"
    /\ op = "flatten_dict"
    /\ data = PyNone
    /\ arg' = ret
    /\ data' = ret
    /\ ret' = PyDict(flatten_dict(ret.v, S_empty))
    /\ UNCHANGED <<settings, classes, op, pc, exc, hidx, headers, rollback, logged, steps>>

\* utils.camelize(s) called on its own, as the tests do
CallCamelize ==
    /\ pc = "idle"
    /\ \E s \in CamelizeInputs :
           /\ arg' = PyStr(s)
           /\ ret' = PyStr(camelize(s))
    /\ op' = "camelize"
    /\ pc' = "done"
    /\ UNCHANGED <<settings, classes, exc, hidx, headers, data, rollback, logged, steps>>

\* the call is over; the next one starts from scratch
NextCall ==
    /\ pc = "done"
    /\ op' = "none"
    /\ pc' = "idle"
    /\ arg' = NoException
    /\ exc' = NoException
    /\ hidx' = 0
    /\ headers' = <<>>
    /\ data' = PyNone
    /\ ret' = PyNone
    /\ rollback' = FALSE
    /\ logged' = FALSE
    /\ steps' = <<>>
    /\ UNCHANGED <<settings, classes>>

Next ==
    \/ CallExceptionHandler
    \/ ApplyExtraHandler
    \/ ConvertException
    \/ ReturnServerError
    \/ GetResponseHeaders
    \/ FormatException
    \/ SetRollback
    \/ ReturnResponse
    \/ CallApplyExtraHandlers
    \/ ApplyHandler
    \/ ReturnFromApplyExtraHandlers
    \/ CallFormatExc
    \/ CallFlattenDict
    \/ FlattenAgain
    \/ CallCamelize
    \/ NextCall

Spec == Init /\ [][Next]_vars

(***************************************************************************)
(* Reading a call's outcome.                                               *)
(***************************************************************************)
\* exception_handler has returned or raised
HandlerDone == op = "exception_handler" /\ pc = "done"

\* the running call has done a step of this kind
Did(kind) == \E i \in 1..Len(steps) : steps[i].step = kind

\* exception_handler has returned a value: nothing was raised out of it
HandlerReturned == HandlerDone /\ ~isinstance(ret, "raise")

\* format_exc has returned a body for exc: called on its own, or inside
\* exception_handler (where the body is kept in data)
Formatted ==
    \/ op = "format_exc" /\ pc = "done" /\ isinstance(ret, "dict")
    \/ op = "exception_handler" /\ isinstance(data, "dict")

Body == IF op = "format_exc" THEN ret ELSE data

TitleOf(body) == DictGet(body.v, S_title)

DetailOf(body) == DictGet(body.v, S_detail)

\* the invalid params, under whichever spelling of the key the body has
InvalidParamsOf(body) ==
    IF HasKey(body.v, S_invalid_params)
    THEN DictGet(body.v, S_invalid_params)
    ELSE DictGet(body.v, S_invalidParams)

\* the names of the invalid params, in order
NamesOf(body) ==
    LET params == InvalidParamsOf(body)
    IN  IF params = PyNone THEN <<>>
        ELSE [i \in 1..Len(params.v) |-> DictGet(params.v[i].v, S_name).v]

\* neither an API exception nor one of the three translated kinds
Unrecognized(e) ==
    /\ ~IsAPIException(e)
    /\ e.cls \notin {"DjangoValidationError", "Http404", "DjangoPermissionDenied"}

\* sub occurs in s
Contains(s, sub) == \E i \in 1..Len(s) : StartsWithAt(s, i, sub)

\* the detail is the exception's own default message, bare or in a list
DetailIsDefault(e) ==
    \/ e.detail = PyStr(e.default_detail)
    \/ e.detail = PyList(<<PyStr(e.default_detail)>>)

(***************************************************************************)
(* Claims.                                                                 *)
(***************************************************************************)

\* C1: for an exception that is neither an API exception nor one of the
\* translated kinds, exception_handler returns a response with status 500
\* whose body has the title "Server error.", no detail and no
\* invalid_params.
C1_UnrecognizedGets500Response ==
    (HandlerDone /\ Unrecognized(arg)) =>
        /\ isinstance(ret, "Response")
        /\ ret.status = 500
        /\ TitleOf(ret.v) = PyStr(S_ServerError)
        /\ DetailOf(ret.v) = PyNone
        /\ InvalidParamsOf(ret.v) = PyNone

\* C2: for an exception that is neither an API exception nor convertible to
\* one, exception_handler returns None.
C2_UnrecognizedReturnsNone ==
    (HandlerDone /\ Unrecognized(arg)) => isinstance(ret, "none")

\* C3: whatever the type and message of an unrecognized exception, the
\* value exception_handler returns is the same one, and no string it
\* carries holds the exception's message.
C3_UnrecognizedLeaksNothing ==
    (HandlerReturned /\ Unrecognized(arg)) =>
        /\ isinstance(ret, "class")
        /\ ret = ServerError
        /\ ~Contains(ret.default_detail, arg.message.v)
        /\ ~Contains(ret.default_code, arg.message.v)

\* C3 witness: an unrecognized exception carrying internals was handled.
C3_Witness ==
    /\ HandlerDone
    /\ arg = ForeignException("KeyError", PyNone, PyStr(S_SecretInternals))
    /\ logged

\* C4: exception_handler applies the built-in default-detail handler also
\* when EXTRA_HANDLERS is empty: the title of a method-not-allowed exception
\* is "Method not allowed.", that of an unsupported-media-type exception
\* "Unsupported media type.", the detail is the exception's own message and
\* invalid_params is null.
C4_DefaultHandlerAlwaysApplied ==
    (HandlerDone /\ arg.cls \in {"MethodNotAllowed", "UnsupportedMediaType"}) =>
        /\ isinstance(ret, "Response")
        /\ TitleOf(ret.v) = PyStr(IF arg.cls = "MethodNotAllowed"
                                  THEN S_MethodNotAllowed
                                  ELSE S_UnsupportedMediaType)
        /\ DetailOf(ret.v) = PyList(<<PyStr(IF arg.cls = "MethodNotAllowed"
                                            THEN S_MethodGET ELSE S_MediaJSON)>>)
        /\ InvalidParamsOf(ret.v) = PyNone

\* C5: the title format_exc gives is "Validation error." for every
\* validation-kind exception and the exception's default message for every
\* other API exception, whatever the detail.
C5_TitleSelection ==
    Formatted =>
        TitleOf(Body) = PyStr(IF exc.cls = "ValidationError"
                              THEN S_ValidationError
                              ELSE exc.default_detail)

\* C5 witness: a not-found exception whose detail was overridden keeps the
\* default message as its title.
C5_Witness ==
    /\ Formatted
    /\ exc.cls = "NotFound"
    /\ exc.detail = PyStr(S_ErrorMessage)
    /\ TitleOf(Body) = PyStr(S_NotFound)
    /\ DetailOf(Body) = PyList(<<PyStr(S_ErrorMessage)>>)

\* C6: for a non-validation API exception whose detail is its own default
\* message, bare or as a one-element list, format_exc returns the title
\* only: detail and invalid_params are null.
C6_DefaultDetailGivesTitleOnly ==
    (Formatted /\ exc.cls # "ValidationError" /\ DetailIsDefault(exc)) =>
        /\ TitleOf(Body) = PyStr(exc.default_detail)
        /\ DetailOf(Body) = PyNone
        /\ InvalidParamsOf(Body) = PyNone

\* C6 witness: the default message given as a one-element list.
C6_Witness ==
    /\ Formatted
    /\ exc.cls = "NotFound"
    /\ exc.detail = PyList(<<PyStr(S_NotFound)>>)
    /\ DetailOf(Body) = PyNone

\* C7 as stated: for every API exception, validation-kind included, whose
\* detail is its own default message, detail and invalid_params are null.
C7_DefaultDetailNullForAllKinds ==
    (Formatted /\ DetailIsDefault(exc)) =>
        /\ DetailOf(Body) = PyNone
        /\ InvalidParamsOf(Body) = PyNone

\* C7 amended: when the detail is the exception's own default message, a
\* non-validation exception has detail and invalid_params null, and a
\* validation-kind exception has the one-element list of that message as
\* detail and invalid_params null.
C7_DefaultDetailByKind ==
    (Formatted /\ DetailIsDefault(exc)) =>
        /\ DetailOf(Body) = IF exc.cls = "ValidationError"
                            THEN PyList(<<PyStr(exc.default_detail)>>)
                            ELSE PyNone
        /\ InvalidParamsOf(Body) = PyNone

\* C7 witness: a validation error raised without a detail was formatted.
C7_Witness ==
    /\ Formatted
    /\ exc.cls = "ValidationError"
    /\ exc.detail = PyList(<<PyStr(S_InvalidInput)>>)
    /\ DetailOf(Body) = PyList(<<PyStr(S_InvalidInput)>>)

(***************************************************************************)
(* Mapping details, read from the input: the leaves of the mapping with    *)
(* the keys on the path to each, in iteration order.                       *)
(***************************************************************************)
RECURSIVE LeafPaths(_, _)
LeafPaths(items, prefix) ==
    IF Len(items) = 0 THEN <<>>
    ELSE LET path == Append(prefix, items[1].k)
         IN  (IF isinstance(items[1].v, "dict")
              THEN LeafPaths(items[1].v.v, path)
              ELSE <<[path |-> path, v |-> items[1].v]>>)
             \o LeafPaths(Tail(items), prefix)

\* the keys of a path joined by sep
RECURSIVE JoinPath(_, _)
JoinPath(path, sep) ==
    IF Len(path) = 1 THEN path[1]
    ELSE JoinPath(SubSeq(path, 1, Len(path) - 1), sep) \o sep \o path[Len(path)]

\* a can be had from b by leaving elements out
RECURSIVE IsSubsequence(_, _)
IsSubsequence(a, b) ==
    IF Len(a) = 0 THEN TRUE
    ELSE IF Len(b) = 0 THEN FALSE
    ELSE IF a[1] = b[1] THEN IsSubsequence(Tail(a), Tail(b))
    ELSE IsSubsequence(a, Tail(b))

\* format_exc returned a body for a mapping detail
FormattedMapping == Formatted /\ isinstance(exc.detail, "dict")

\* the messages of a leaf: the string itself, or the elements of the list
MessagesOf(value) ==
    IF isinstance(value, "list")
    THEN {value.v[i] : i \in 1..Len(value.v)}
    ELSE {value}

IsLeaf(value) == ~isinstance(value, "dict")

\* m is an element of the body's detail
InDetail(body, m) ==
    /\ isinstance(DetailOf(body), "list")
    /\ \E j \in 1..Len(DetailOf(body).v) : DetailOf(body).v[j] = m

\* C8: with the default casing, each invalid_params name is the keys on
\* the path from the root of the mapping detail to one leaf joined by
\* FIELDS_SEPARATOR, whatever string the separator is, and the entries
\* appear in the order in which the leaves are met.
C8_NamesAreJoinedPaths ==
    (FormattedMapping /\ ~CAMELIZE) =>
        LET leaves == LeafPaths(exc.detail.v, <<>>)
        IN  IsSubsequence(NamesOf(Body),
                [i \in 1..Len(leaves) |->
                    JoinPath(leaves[i].path, FIELDS_SEPARATOR)])

\* C9: the message or messages under a non-field-error key of a mapping
\* detail ("non_field_errors" or "__all__", a string or a list) appear in
\* the body's detail, and no invalid_params entry is named by such a key.
C9_NonFieldErrorsGoToDetail ==
    FormattedMapping =>
        /\ \A i \in 1..Len(exc.detail.v) :
               (IsNonFieldErrorsKey(exc.detail.v[i].k) /\ IsLeaf(exc.detail.v[i].v)) =>
                   \A m \in MessagesOf(exc.detail.v[i].v) : InDetail(Body, m)
        /\ \A j \in 1..Len(NamesOf(Body)) :
               NamesOf(Body)[j] \notin {NON_FIELD_ERRORS_KEY, S_all}

\* C10: when a mapping detail holds a non-field-error key with at least one
\* message and a field key with an error under it, the body has detail and
\* invalid_params both non-null.
C10_DetailAndInvalidParamsTogether ==
    (/\ FormattedMapping
     /\ \E i \in 1..Len(exc.detail.v) :
            /\ IsNonFieldErrorsKey(exc.detail.v[i].k)
            /\ IsLeaf(exc.detail.v[i].v)
            /\ MessagesOf(exc.detail.v[i].v) # {}
     /\ \E i \in 1..Len(exc.detail.v) :
            /\ ~IsNonFieldErrorsKey(exc.detail.v[i].k)
            /\ Len(LeafPaths(<<exc.detail.v[i]>>, <<>>)) > 0)
    => /\ DetailOf(Body) # PyNone
       /\ InvalidParamsOf(Body) # PyNone

\* the three statements above where the separator is not empty
NonEmptySeparatorCheck ==
    FIELDS_SEPARATOR # S_empty =>
        /\ C8_NamesAreJoinedPaths
        /\ C9_NonFieldErrorsGoToDetail
        /\ C10_DetailAndInvalidParamsTogether

\* the leaves of a mapping that are not directly under a top-level
\* non-field-error key
FieldLeaves(items) ==
    SelectSeq(LeafPaths(items, <<>>),
              LAMBDA leaf : ~(Len(leaf.path) = 1 /\ IsNonFieldErrorsKey(leaf.path[1])))

\* C11: for a mapping detail the invalid_params names stand one to one for
\* the leaves of the mapping other than those under a non-field-error key:
\* there are as many names as such leaves, and the names are exactly the
\* leaves' paths joined by FIELDS_SEPARATOR (in the configured casing), so
\* that no leaf is lost, merged with another or invented.
C11_NamesMatchLeafPaths ==
    FormattedMapping =>
        LET leaves == FieldLeaves(exc.detail.v)
            names == NamesOf(Body)
        IN  /\ Len(names) = Len(leaves)
            /\ {names[i] : i \in 1..Len(names)} =
                   {camelize(JoinPath(leaves[i].path, FIELDS_SEPARATOR)) :
                        i \in 1..Len(leaves)}

(***************************************************************************)
(* List details, read from the input.                                      *)
(***************************************************************************)
\* the elements of a list detail, a bare string being a list of one
ElementsOf(e) ==
    IF isinstance(e.detail, "str") THEN <<e.detail>> ELSE e.detail.v

IsListOfStrings(value) ==
    /\ isinstance(value, "list")
    /\ \A i \in 1..Len(value.v) : isinstance(value.v[i], "str")

\* a list or bare string whose elements are strings or lists of strings
HasListDetail(e) ==
    /\ isinstance(e.detail, "str") \/ isinstance(e.detail, "list")
    /\ \A i \in 1..Len(ElementsOf(e)) :
           isinstance(ElementsOf(e)[i], "str") \/ IsListOfStrings(ElementsOf(e)[i])

\* each string kept, each nested list replaced by its elements
RECURSIVE Spliced(_)
Spliced(elems) ==
    IF Len(elems) = 0 THEN <<>>
    ELSE LET last == elems[Len(elems)]
         IN  Spliced(SubSeq(elems, 1, Len(elems) - 1))
             \o (IF isinstance(last, "list") THEN last.v ELSE <<last>>)

FormattedList == Formatted /\ HasListDetail(exc)

\* C12 as stated: for a detail that is a list, or a bare string, of strings
\* and lists of strings, the body's detail is the list with each string
\* kept and each nested list's elements spliced in its place, in order, and
\* invalid_params is null.
C12_ListDetailIsSpliced ==
    FormattedList =>
        /\ DetailOf(Body) = PyList(Spliced(ElementsOf(exc)))
        /\ InvalidParamsOf(Body) = PyNone

\* C12 amended: the same, except that detail is null when the spliced list
\* is empty, and when the exception is not a validation error and its
\* detail is its own default message (bare or as a one-element list).
C12_ListDetailIsSplicedUnlessDefaultOrEmpty ==
    FormattedList =>
        /\ InvalidParamsOf(Body) = PyNone
        /\ DetailOf(Body) =
               IF ~IsValidationError(exc) /\ DetailIsDefault(exc) THEN PyNone
               ELSE IF Len(Spliced(ElementsOf(exc))) = 0 THEN PyNone
               ELSE PyList(Spliced(ElementsOf(exc)))

\* a list detail with a string and a non-empty nested list has been
\* formatted into a detail of both
C12_Witness ==
    /\ FormattedList
    /\ isinstance(exc.detail, "list")
    /\ \E i, j \in 1..Len(exc.detail.v) :
           /\ isinstance(exc.detail.v[i], "str")
           /\ isinstance(exc.detail.v[j], "list")
           /\ Len(exc.detail.v[j].v) > 0
    /\ isinstance(DetailOf(Body), "list")
    /\ Len(DetailOf(Body).v) = Len(exc.detail.v)

\* a list detail with an element that is neither a string nor a list
HasUnexpectedElement(e) ==
    /\ isinstance(e.detail, "list")
    /\ \E i \in 1..Len(e.detail.v) :
           ~isinstance(e.detail.v[i], "str") /\ ~isinstance(e.detail.v[i], "list")

\* format_exc has been called, on its own or inside exception_handler
FormatCalled == op = "format_exc" \/ Did("format")

\* C13: for an API exception whose list detail holds an element that is
\* neither a string nor a list, no body is ever produced, and the call of
\* format_exc (on its own or inside exception_handler) ends by raising
\* TypeError.
C13_UnexpectedElementRaises ==
    (IsAPIException(exc) /\ HasUnexpectedElement(exc)) =>
        /\ data = PyNone
        /\ ~isinstance(ret, "dict") /\ ~isinstance(ret, "Response")
        /\ (pc = "done" /\ FormatCalled) => ret = Raise("TypeError")

\* format_exc was called with a list holding a mapping, and raised
C13_Witness ==
    /\ pc = "done"
    /\ FormatCalled
    /\ IsAPIException(exc)
    /\ HasUnexpectedElement(exc)
    /\ \E i \in 1..Len(exc.detail.v) : isinstance(exc.detail.v[i], "dict")
    /\ ret = Raise("TypeError")

\* null, or a list that is not empty
NullOrNonEmptyList(value) ==
    \/ value = PyNone
    \/ isinstance(value, "list") /\ Len(value.v) > 0

\* C14: in every body format_exc returns, detail is null or a non-empty
\* list, and invalid_params is null or a non-empty list.
C14_NoEmptyCollections ==
    Formatted =>
        /\ NullOrNonEmptyList(DetailOf(Body))
        /\ NullOrNonEmptyList(InvalidParamsOf(Body))

\* a detail that yields no message and no field was formatted: an empty
\* list, a list of an empty list, an empty mapping, or a mapping with an
\* empty list under a non-field-error key
C14_Witness ==
    /\ Formatted
    /\ exc.detail \in {PyList(<<>>), PyList(<<PyList(<<>>)>>), PyDict(<<>>),
                       PyDict(<<Item(NON_FIELD_ERRORS_KEY, PyList(<<>>))>>)}
    /\ DetailOf(Body) = PyNone
    /\ InvalidParamsOf(Body) = PyNone

\* the reasons of the invalid params, in order
ReasonsOf(body) ==
    LET params == InvalidParamsOf(body)
    IN  IF params = PyNone THEN <<>>
        ELSE [i \in 1..Len(params.v) |-> DictGet(params.v[i].v, S_reason)]

\* C15: every invalid_params entry of every body has a reason that is a
\* non-empty list of strings.
C15_ReasonIsNonEmptyListOfStrings ==
    Formatted =>
        \A i \in 1..Len(ReasonsOf(Body)) :
            /\ IsListOfStrings(ReasonsOf(Body)[i])
            /\ Len(ReasonsOf(Body)[i].v) > 0

\* the empty string, the empty list or the empty mapping
IsEmptyDetail(value) ==
    value \in {PyStr(S_empty), PyList(<<>>), PyDict(<<>>)}

\* C16: when the exception's detail is the empty string, the empty list or
\* the empty mapping, the body has detail null and invalid_params null.
C16_EmptyDetailPopulatesNothing ==
    (Formatted /\ IsEmptyDetail(exc.detail)) =>
        /\ DetailOf(Body) = PyNone
        /\ InvalidParamsOf(Body) = PyNone

(***************************************************************************)
(* camelize called on its own.                                             *)
(***************************************************************************)
Camelized == op = "camelize" /\ pc = "done"

KeysOf(items) == [i \in 1..Len(items) |-> items[i].k]

\* the keys of the flattened mapping detail that name fields, in order
FlatFieldKeys(e) ==
    IF ~isinstance(e.detail, "dict") THEN <<>>
    ELSE SelectSeq(KeysOf(flatten_dict(e.detail.v, S_empty)),
                   LAMBDA k : ~IsNonFieldErrorsKey(k))

\* every string found in a value, at any depth
RECURSIVE StringsIn(_)
StringsIn(value) ==
    IF isinstance(value, "str") THEN {value.v}
    ELSE IF isinstance(value, "list")
    THEN UNION {StringsIn(value.v[i]) : i \in 1..Len(value.v)}
    ELSE IF isinstance(value, "dict")
    THEN UNION {StringsIn(value.v[i].v) : i \in 1..Len(value.v)}
    ELSE {}

\* the message texts of a body: those of detail and of the reasons
MessageTextsOf(body) ==
    StringsIn(DetailOf(body))
    \cup UNION {StringsIn(ReasonsOf(body)[i]) : i \in 1..Len(ReasonsOf(body))}

\* C18: the body's keys are title, detail and invalid_params, the last
\* spelled invalidParams exactly when CAMELIZE is enabled; the
\* invalid_params names are the flattened field keys, put through the same
\* transform exactly when CAMELIZE is enabled; in both modes each entry's
\* keys are name and reason, the title is the fixed phrase or the default
\* message, and every message text is one of the exception's detail.
C18_OneCasingSwitch ==
    Formatted =>
        /\ KeysOf(Body.v) =
               <<S_title, S_detail,
                 IF CAMELIZE THEN re_sub(S_invalid_params, 1) ELSE S_invalid_params>>
        /\ CAMELIZE => re_sub(S_invalid_params, 1) = S_invalidParams
        /\ NamesOf(Body) =
               [i \in 1..Len(FlatFieldKeys(exc)) |->
                   IF CAMELIZE THEN re_sub(FlatFieldKeys(exc)[i], 1)
                   ELSE FlatFieldKeys(exc)[i]]
        /\ InvalidParamsOf(Body) # PyNone =>
               \A i \in 1..Len(InvalidParamsOf(Body).v) :
                   KeysOf(InvalidParamsOf(Body).v[i].v) = <<S_name, S_reason>>
        /\ TitleOf(Body).v \in {S_ValidationError, exc.default_detail}
        /\ MessageTextsOf(Body) \subseteq StringsIn(exc.detail)

\* with CAMELIZE enabled a mapping with the key "first_name" was formatted
\* into a body with the key invalidParams and the name "firstName"
C18_Witness ==
    /\ Formatted
    /\ CAMELIZE
    /\ HasKey(Body.v, S_invalidParams)
    /\ \E i \in 1..Len(NamesOf(Body)) : NamesOf(Body)[i] = S_firstName
    /\ HasKey(exc.detail.v, S_first_name)

(***************************************************************************)
(* Headers.                                                                *)
(***************************************************************************)
\* exception_handler has computed the headers of an API exception
HeadersExtracted ==
    /\ op = "exception_handler"
    /\ pc \in {"format", "rollback", "respond", "done"}
    /\ IsAPIException(exc)

\* the number a string of decimal digits stands for, -1 if it is not one
RECURSIVE ParseDecimal(_)
ParseDecimal(s) ==
    IF Len(s) = 0 THEN -1
    ELSE LET last == s[Len(s)]
             digit == IF \E d \in 1..10 : DigitChars[d] = last
                      THEN (CHOOSE d \in 1..10 : DigitChars[d] = last) - 1
                      ELSE -1
             front == IF Len(s) = 1 THEN 0
                      ELSE ParseDecimal(SubSeq(s, 1, Len(s) - 1))
         IN  IF digit < 0 \/ front < 0 THEN -1 ELSE front * 10 + digit

\* C19: the headers of an API exception hold WWW-Authenticate, equal to the
\* exception's authentication challenge, exactly when it carries one, and
\* Retry-After, a string of decimal digits standing for the wait value
\* ("60" for 60), exactly when it carries a numeric wait value; they hold
\* no other header.
C19_HeadersFromAttributes ==
    HeadersExtracted =>
        /\ exc.auth_header # PyNone =>
               /\ HasKey(headers, S_WWW_Authenticate)
               /\ DictGet(headers, S_WWW_Authenticate) = exc.auth_header
        /\ exc.auth_header = PyNone => ~HasKey(headers, S_WWW_Authenticate)
        /\ isinstance(exc.wait, "int") =>
               /\ HasKey(headers, S_Retry_After)
               /\ isinstance(DictGet(headers, S_Retry_After), "str")
               /\ ParseDecimal(DictGet(headers, S_Retry_After).v) = exc.wait.v
               /\ exc.wait.v = 60 =>
                      DictGet(headers, S_Retry_After).v = <<"6", "0">>
        /\ exc.wait = PyNone => ~HasKey(headers, S_Retry_After)
        /\ \A i \in 1..Len(headers) :
               headers[i].k \in {S_WWW_Authenticate, S_Retry_After}
        /\ isinstance(ret, "Response") => ret.headers = headers

(***************************************************************************)
(* Status.                                                                 *)
(***************************************************************************)
\* exception_handler has returned a response
Responded == HandlerDone /\ isinstance(ret, "Response")

\* C20: the status of a response exception_handler returns is the
\* status_code of the API exception it formatted: that of the exception it
\* was called with if that is an API exception, and otherwise that of the
\* kind it was translated to (400 for a Django validation error, 404 for
\* Http404, 403 for Django's PermissionDenied).
C20_StatusIsTheExceptionsOwn ==
    Responded =>
        /\ ret.status = exc.status_code
        /\ IsAPIException(arg) => ret.status = arg.status_code
        /\ arg.cls = "DjangoValidationError" => ret.status = 400
        /\ arg.cls = "Http404" => ret.status = 404
        /\ arg.cls = "DjangoPermissionDenied" => ret.status = 403

\* a response with the status 404 has been returned for Http404
C20_Witness ==
    /\ Responded
    /\ arg.cls = "Http404"
    /\ exc.cls = "NotFound"
    /\ ret.status = 404

(***************************************************************************)
(* Claims about the translation of foreign exceptions.                     *)
(***************************************************************************)
\* the keys of a mapping payload, in order; none for another payload
PayloadKeys(value) ==
    IF isinstance(value, "dict") THEN KeysOf(value.v) ELSE <<>>

\* the message texts of a payload, in order, params filled in
RECURSIVE PayloadTexts(_)
PayloadTexts(value) ==
    IF isinstance(value, "str") THEN <<value.v>>
    ELSE IF isinstance(value, "error") THEN <<render(value).v>>
    ELSE IF isinstance(value, "list")
    THEN IF value.v = <<>> THEN <<>>
         ELSE PayloadTexts(Head(value.v)) \o PayloadTexts(PyList(Tail(value.v)))
    ELSE IF isinstance(value, "dict")
    THEN IF value.v = <<>> THEN <<>>
         ELSE PayloadTexts(Head(value.v).v) \o PayloadTexts(PyDict(Tail(value.v)))
    ELSE <<>>

\* the same, as a list of strings
TextList(value) ==
    PyList([i \in 1..Len(PayloadTexts(value)) |-> PyStr(PayloadTexts(value)[i])])

\* the API exception's detail carries the payload: the same message texts,
\* and for a mapping the same fields, in order, each with its own texts
SamePayload(payload, detail) ==
    /\ isinstance(detail, "dict")
    /\ StringsIn(detail) = {PayloadTexts(payload)[i] :
                                i \in 1..Len(PayloadTexts(payload))}
    /\ isinstance(payload, "dict") =>
           /\ KeysOf(detail.v) = PayloadKeys(payload)
           /\ \A i \in 1..Len(payload.v) :
                  detail.v[i].v = TextList(payload.v[i].v)

\* the step exc = _convert_django_exc_to_drf_api_exc(exc) of exception_handler
ConversionStep == pc = "handlers" /\ pc' = "check"

Translated(before, after) ==
    CASE before.cls = "DjangoValidationError" ->
            /\ after.cls = "ValidationError"
            /\ after.status_code = 400
            /\ SamePayload(before.detail, after.detail)
      [] before.cls = "Http404" ->
            /\ after.cls = "NotFound"
            /\ after.status_code = 404
            /\ after.default_detail = S_NotFound
      [] before.cls = "DjangoPermissionDenied" ->
            /\ after.cls = "PermissionDenied"
            /\ after.status_code = 403
            /\ after.default_detail = S_PermissionDenied
      [] OTHER -> after = before

\* the body is the title alone
TitleOnly(body, title) ==
    /\ TitleOf(body) = PyStr(title)
    /\ DetailOf(body) = PyNone
    /\ InvalidParamsOf(body) = PyNone

\* C21: the conversion step turns a Django validation error into a
\* ValidationError of status 400 with the same payload, an Http404 into a
\* NotFound of status 404 and default message "Not found.", a Django
\* PermissionDenied into a PermissionDenied of status 403 and its default
\* message, and leaves every other exception as it was; for the last two
\* the response body is the title alone, whatever message the original had.
C21_ForeignExceptionsAreTranslated ==
    /\ [][ConversionStep => Translated(exc, exc')]_vars
    /\ [](Responded =>
            /\ arg.cls = "Http404" =>
                   ret.status = 404 /\ TitleOnly(ret.v, S_NotFound)
            /\ arg.cls = "DjangoPermissionDenied" =>
                   ret.status = 403 /\ TitleOnly(ret.v, S_PermissionDenied))

\* an Http404 that carried a message has been answered
C21_Witness ==
    /\ Responded
    /\ arg.cls = "Http404"
    /\ arg.message = PyStr(S_SecretInternals)

\* exception_handler has answered a Django validation error
DjangoValidationAnswered == Responded /\ arg.cls = "DjangoValidationError"

\* every key of the mapping names a field: none is a non-field-errors key
IsFieldMapping(payload) ==
    /\ isinstance(payload, "dict")
    /\ \A i \in 1..Len(payload.v) : ~IsNonFieldErrorsKey(payload.v[i].k)

\* C22: for a Django validation error whose payload is one message or a
\* list of messages (strings or nested validation errors, params filled
\* in), the body is title "Validation error.", detail the rendered messages
\* in their order and invalid_params null; for a payload mapping fields to
\* messages, detail is null and invalid_params has one entry per field, in
\* order, with the field's messages as its reason list.
C22_DjangoValidationErrorBody ==
    DjangoValidationAnswered =>
        LET payload == arg.detail
            body == ret.v
            params == InvalidParamsOf(body)
        IN  /\ TitleOf(body) = PyStr(S_ValidationError)
            /\ ~isinstance(payload, "dict") =>
                   /\ DetailOf(body) = TextList(payload)
                   /\ params = PyNone
            /\ payload = DjangoError(S_ErrorTemplate, PyStr(S_ERROR)) =>
                   DetailOf(body) = PyList(<<PyStr(S_ErrorRendered)>>)
            /\ IsFieldMapping(payload) =>
                   /\ DetailOf(body) = PyNone
                   /\ params # PyNone
                   /\ Len(params.v) = Len(payload.v)
                   /\ \A i \in 1..Len(payload.v) :
                          /\ NamesOf(body)[i] =
                                 (IF CAMELIZE THEN camelize(payload.v[i].k)
                                  ELSE payload.v[i].k)
                          /\ ReasonsOf(body)[i] = TextList(payload.v[i].v)

\* a list of two nested validation errors, one with params, was answered
C22_Witness ==
    /\ DjangoValidationAnswered
    /\ isinstance(arg.detail, "list")
    /\ Len(arg.detail.v) = 2
    /\ isinstance(arg.detail.v[2], "error")
    /\ DetailOf(ret.v) = PyList(<<PyStr(S_AnotherError), PyStr(S_ErrorRendered)>>)

(***************************************************************************)
(* Claims about handlers.apply_extra_handlers.                             *)
(***************************************************************************)
IsPrefix(a, b) == Len(a) <= Len(b) /\ a = SubSeq(b, 1, Len(a))

\* the handlers the running call has called, in order
HandlersCalled == [i \in 1..Len(steps) |-> steps[i].handler]

\* apply_extra_handlers has returned
ApplyReturned ==
    op = "apply_extra_handlers" /\ pc = "done" /\ ~isinstance(ret, "raise")

\* C23: apply_extra_handlers calls the default-detail handler first and
\* then each handler of EXTRA_HANDLERS once, in the configured order, every
\* one with the exception object it was given; with EXTRA_HANDLERS empty the
\* default handler is the only one called.
C23_DefaultHandlerThenConfiguredOnes ==
    op = "apply_extra_handlers" =>
        LET expected == <<"set_default_detail_to_formatted_exc_default_code">>
                        \o EXTRA_HANDLERS
        IN  /\ IsPrefix(HandlersCalled, expected)
            /\ \A i \in 1..Len(steps) :
                   steps[i].step = "handler" /\ steps[i].on = arg.id
            /\ ApplyReturned => HandlersCalled = expected
            /\ (ApplyReturned /\ EXTRA_HANDLERS = <<>>) =>
                   HandlersCalled =
                       <<"set_default_detail_to_formatted_exc_default_code">>

\* apply_extra_handlers has returned after calling the default handler and
\* two configured ones
C23_Witness ==
    /\ ApplyReturned
    /\ EXTRA_HANDLERS = <<"log", "audit">>
    /\ Len(steps) = 3

(***************************************************************************)
(* flatten_dict called on its own.                                         *)
(***************************************************************************)
Flattened == op = "flatten_dict" /\ pc = "done"

\* no value of the mapping is a mapping
IsFlat(mapping) ==
    \A i \in 1..Len(mapping.v) : ~isinstance(mapping.v[i].v, "dict")

\* C24: flatten_dict returns a mapping without nested mappings equal to
\* its input, keys, values and order, and what it returns never has a
\* nested mapping; so flattening its own result gives that result again.
C24_FlattenIsIdempotent ==
    Flattened =>
        /\ IsFlat(arg) => ret = arg
        /\ IsFlat(ret)
        /\ data # PyNone => ret = data

\* a nested mapping was flattened (the result differs from it), and the
\* result was flattened again
C24_Witness ==
    /\ Flattened
    /\ data # PyNone
    /\ Len(data.v) = 2
    /\ \E i \in 1..Len(data.v) : Contains(data.v[i].k, S_dot)
    /\ ret = data

(***************************************************************************)
(* Claims about the order of the steps of exception_handler.               *)
(***************************************************************************)
\* what the steps of the running call did, in order
StepKinds == [i \in 1..Len(steps) |-> steps[i].step]

\* the steps of a whole run for a recognized exception, and for an
\* unrecognized one, with n handlers configured
RecognizedRun(n) ==
    [i \in 1..n |-> "handler"]
    \o <<"convert", "recognized", "headers", "format", "set_rollback", "respond">>

UnrecognizedRun(n) ==
    [i \in 1..n |-> "handler"] \o <<"convert", "unrecognized">>

\* C25: in every run of exception_handler the steps done so far are the
\* beginning of: every handler of EXTRA_HANDLERS, in order, on the original
\* exception object; its translation; the decision; and then, for a
\* recognized exception, header extraction, formatting, rollback and the
\* response, all on the translated exception, for an unrecognized one
\* nothing more: neither headers nor a body are ever produced for it.
C25_StepsInOrder ==
    op = "exception_handler" =>
        LET n == Len(EXTRA_HANDLERS)
        IN  /\ \/ IsPrefix(StepKinds, RecognizedRun(n))
               \/ IsPrefix(StepKinds, UnrecognizedRun(n))
            /\ \A i \in 1..Len(steps) :
                   IF steps[i].step \in {"handler", "convert"}
                   THEN /\ steps[i].on = arg.id
                        /\ steps[i].step = "handler" =>
                               steps[i].handler = EXTRA_HANDLERS[i]
                   ELSE steps[i].on = exc.id
            /\ ~Did("convert") => exc.id = arg.id /\ exc.cls = arg.cls
            /\ Did("unrecognized") =>
                   /\ Unrecognized(arg)
                   /\ ~Did("headers") /\ ~Did("format")
                   /\ headers = <<>> /\ data = PyNone
            /\ (HandlerReturned /\ Unrecognized(arg)) => Did("unrecognized")

\* a Django validation error was answered after two handlers had seen it
C25_Witness ==
    /\ Responded
    /\ arg.cls = "DjangoValidationError"
    /\ EXTRA_HANDLERS = <<"log", "audit">>
    /\ StepKinds = RecognizedRun(2)

(***************************************************************************)
(* Claims about the rollback signal.                                       *)
(***************************************************************************)
\* the positions of the steps of a kind in the running call
StepsOf(kind) == {i \in 1..Len(steps) : steps[i].step = kind}

\* exception_handler has ended by raising: a handler or the formatter did
HandlerRaised == HandlerDone /\ isinstance(ret, "raise")

\* C26: exception_handler calls set_rollback once in every run that returns
\* a response, after format_exc has returned a body and before the response
\* is returned, and never in a run that ends as unrecognized or by a handler
\* or the formatter raising; the rollback flag is set by that call alone.
C26_RollbackOnceAfterFormatting ==
    op = "exception_handler" =>
        /\ Cardinality(StepsOf("set_rollback")) <= 1
        /\ rollback <=> Did("set_rollback")
        /\ \A i \in StepsOf("set_rollback") :
               /\ i > 1 /\ steps[i - 1].step = "format"
               /\ isinstance(data, "dict")
               /\ \A j \in StepsOf("respond") : i < j
        /\ Responded =>
               /\ Cardinality(StepsOf("set_rollback")) = 1
               /\ rollback
        /\ (HandlerRaised \/ (HandlerDone /\ Unrecognized(arg))) =>
               /\ ~rollback
               /\ ~Did("set_rollback")

\* a run in which the formatter raised has ended without a rollback signal
C26_Witness ==
    /\ HandlerRaised
    /\ Did("format")
    /\ ret = Raise("TypeError")
    /\ ~rollback

(***************************************************************************)
(* Claims about the default-detail handler.                                *)
(***************************************************************************)
\* the default handler has been called on the exception of the running
\* call of apply_extra_handlers (it is the first to be called)
DefaultHandlerApplied == op = "apply_extra_handlers" /\ Len(steps) >= 1

RewrittenKinds == {"MethodNotAllowed", "UnsupportedMediaType"}

\* C27: set_default_detail_to_formatted_exc_default_code changes nothing of
\* the exception but its default message; for a MethodNotAllowed it becomes
\* "Method not allowed.", for an UnsupportedMediaType "Unsupported media
\* type." (the code, underscores as spaces, capitalised, with a final "."),
\* while the detail stays what it was and differs from the new default; for
\* every other kind the default message stays what it was.
C27_DefaultDetailRewrittenForTwoKinds ==
    DefaultHandlerApplied =>
        /\ [exc EXCEPT !.default_detail = arg.default_detail] = arg
        /\ arg.cls = "MethodNotAllowed" =>
               exc.default_detail = S_MethodNotAllowed
        /\ arg.cls = "UnsupportedMediaType" =>
               exc.default_detail = S_UnsupportedMediaType
        /\ arg.cls \in RewrittenKinds =>
               /\ exc.detail = arg.detail
               /\ exc.detail # PyStr(exc.default_detail)
        /\ arg.cls \notin RewrittenKinds =>
               exc.default_detail = arg.default_detail

\* the default handler has rewritten the default message of a
\* MethodNotAllowed("GET")
C27_Witness ==
    /\ DefaultHandlerApplied
    /\ arg = MethodNotAllowed(S_GET)
    /\ exc.default_detail = S_MethodNotAllowed
    /\ exc.detail = PyStr(S_MethodGET)

(***************************************************************************)
(* Claims about process-wide state.                                        *)
(***************************************************************************)
\* exception_handler or apply_extra_handlers has just been entered with a
\* newly raised exception
Entered ==
    /\ op \in {"exception_handler", "apply_extra_handlers"}
    /\ steps = <<>>
    /\ pc \in {"handlers", "apply"}

\* C28: no step changes CAMELIZE, FIELDS_SEPARATOR, EXTRA_HANDLERS or an
\* attribute of an exception class: the class attributes are always those
\* of a fresh process, the default handler's rewrite being one of the
\* instance; so an exception raised later carries its class's own default
\* message, and a later MethodNotAllowed("GET") is formatted with the detail
\* 'Method "GET" not allowed.' as the first one was.
C28_NoProcessWideStateChanges ==
    /\ [][/\ CAMELIZE' = CAMELIZE
          /\ FIELDS_SEPARATOR' = FIELDS_SEPARATOR
          /\ EXTRA_HANDLERS' = EXTRA_HANDLERS
          /\ classes' = classes]_vars
    /\ [](classes = ImportedClasses)
    /\ [](Entered =>
             /\ exc.default_detail = ClassAttrs(exc.cls).default_detail
             /\ exc.default_code = ClassAttrs(exc.cls).default_code
             /\ exc.status_code = ClassAttrs(exc.cls).status_code)
    /\ []((Formatted /\ arg.cls = "MethodNotAllowed") =>
             /\ arg.detail = PyStr(S_MethodGET)
             /\ DetailOf(Body) = PyList(<<PyStr(S_MethodGET)>>))

\* the default handler has rewritten the default message of the instance
\* being handled, and the class still has its own
C28_Witness ==
    /\ op \in {"exception_handler", "apply_extra_handlers"}
    /\ Did("handler")
    /\ exc.cls = "MethodNotAllowed"
    /\ exc.default_detail = S_MethodNotAllowed
    /\ classes[exc.cls].default_detail = S_MethodTemplate

(***************************************************************************)
(* Claims about camelize on every string.                                  *)
(***************************************************************************)
\* the i-th character of s is an underscore between two characters that
\* are lowercase letters or digits
Between(s, i) ==
    /\ 1 < i /\ i < Len(s)
    /\ s[i] = "_"
    /\ IsLowerOrDigit(s[i - 1])
    /\ IsLowerOrDigit(s[i + 1])

\* s from its i-th character on, without the underscores that stand between
\* two such characters and with the character after each in upper case
RECURSIVE Collapsed(_, _)
Collapsed(s, i) ==
    IF i > Len(s) THEN <<>>
    ELSE (IF Between(s, i) THEN <<>>
          ELSE IF i > 1 /\ Between(s, i - 1) THEN <<upper(s[i])>>
          ELSE <<s[i]>>)
         \o Collapsed(s, i + 1)

\* C29: with CAMELIZE enabled, camelize removes every underscore that stands
\* between two lowercase letters or digits and puts the character after it
\* in upper case, also when the segments are one character long ("a_b_c"
\* gives "aBC"), and leaves every other character as it is.
C29_EveryInnerUnderscoreCollapsed ==
    (Camelized /\ CAMELIZE) => ret.v = Collapsed(arg.v, 1)

(***************************************************************************)
(* Claims about a handler that raises.                                     *)
(***************************************************************************)
\* the running call has called the handler that raises
FailingHandlerCalled ==
    \E i \in 1..Len(steps) :
        steps[i].step = "handler" /\ steps[i].handler = "fail"

\* C30: once an extra handler has raised inside exception_handler, the run
\* is over with that error raised out of exception_handler: the failing
\* call is the last step, so no later handler is called and no translation,
\* header extraction, formatting or rollback happens, and neither a
\* response nor ServerError is returned.
C30_HandlerErrorPropagates ==
    (op = "exception_handler" /\ FailingHandlerCalled) =>
        /\ pc = "done"
        /\ ret = Raise("RuntimeError")
        /\ steps[Len(steps)].handler = "fail"
        /\ \A i \in 1..Len(steps) :
               steps[i].step = "handler" /\ steps[i].handler = EXTRA_HANDLERS[i]
        /\ exc.id = arg.id /\ exc.cls = arg.cls
        /\ headers = <<>>
        /\ data = PyNone
        /\ ~rollback
        /\ ~logged

\* the second of three handlers has raised while a Django validation error
\* was being handled
C30_Witness ==
    /\ HandlerRaised
    /\ EXTRA_HANDLERS = <<"log", "fail", "audit">>
    /\ arg.cls = "DjangoValidationError"
    /\ Len(steps) = 2
    /\ ret = Raise("RuntimeError")

====
